---- MODULE Spec2Model ----
(***************************************************************************)
(* Model of examples/python/notebooks/shop_agent.ipynb: the single-lookup  *)
(* client call_vector_search and the fan-out aggregator                    *)
(* find_shopping_items, run by a single-threaded caller (a notebook cell   *)
(* or the agent runtime's tool dispatch).                                  *)
(*                                                                         *)
(* Strings that reach the wire are sequences of one-character strings, so  *)
(* that json.dumps is modelled by the escaping it performs.  The library   *)
(* calls keep the behaviour of the `requests` package the notebook         *)
(* installs with google-adk (requests >= 2.28): raise_for_status raises    *)
(* HTTPError for 4xx and 5xx only, Response.json raises                    *)
(* requests.exceptions.JSONDecodeError, a RequestException.                *)
(***************************************************************************)
EXTENDS Integers, Sequences, FiniteSets, TLC

VARIABLES
    pc,         \* position of the single thread of control
    top,        \* the function the caller invoked last
    queries,    \* find_shopping_items: parameter `queries`
    idx,        \* find_shopping_items: position of the for loop in `queries`
    items,      \* find_shopping_items: local accumulator `items`
    result,     \* value call_vector_search handed back to its caller
    cvsArgs,    \* call_vector_search: parameters url, query, rows
    calls,      \* invocations of call_vector_search in the current top-level call
    inflight,   \* HTTP requests sent and not yet answered
    posts,      \* history: requests.post calls of the current top-level call
    wire,       \* history: what the endpoint/transport answered last
    responses,  \* history: item lists carried by the bodies received in this run
    allOk,      \* history: every lookup of this run was a 2xx with an item list
    stdout,     \* lines printed by the current top-level call
    ret,        \* what the current/last top-level call gave its caller
    prev,       \* history: one earlier completed run of find_shopping_items
    taPc,       \* test_agent: position of the coroutine
    taStream,   \* test_agent: the events runner.run_async will yield
    taPos,      \* test_agent: number of events taken from the stream
    taText,     \* test_agent: local final_response_text
    taOut       \* test_agent: lines printed by the current call

toolVars == <<pc, top, queries, idx, items, result, cvsArgs, calls, inflight,
              posts, wire, responses, allOk, stdout, ret, prev>>

taVars == <<taPc, taStream, taPos, taText, taOut>>

vars == <<toolVars, taVars>>

----------------------------------------------------------------------------
(* Bounds and input universes *)

MaxQueries == 2

\* Query strings: one with leading/trailing-space material, one that needs
\* JSON escaping.
Queries == { <<" ", "a">>, <<"\"", "\\">> }

\* Opaque items; the lists a backend may return for one query.
ItemLists == { <<"i2", "i1">>, <<"i1">> }

RECURSIVE SeqsUpTo(_, _)
SeqsUpTo(S, n) ==
    IF n = 0 THEN { <<>> }
    ELSE LET shorter == SeqsUpTo(S, n - 1)
         IN  shorter \cup { Append(s, x) : s \in shorter, x \in S }

QueryLists == SeqsUpTo(Queries, MaxQueries)

----------------------------------------------------------------------------
(* Python / JSON values *)

PyNone == [kind |-> "None", has |-> FALSE, items |-> <<>>]
JsonDictWith(L) == [kind |-> "dict", has |-> TRUE, items |-> L]
JsonDictWithout == [kind |-> "dict", has |-> FALSE, items |-> <<>>]
JsonArray == [kind |-> "array", has |-> FALSE, items |-> <<>>]
JsonNull == [kind |-> "null", has |-> FALSE, items |-> <<>>]

JsonValues == { JsonDictWith(L) : L \in ItemLists }
                  \cup { JsonDictWithout, JsonArray, JsonNull }

\* A response body: well-formed JSON text of a value, or text that is not JSON.
Malformed == [wf |-> FALSE, val |-> JsonNull]
Bodies == { [wf |-> TRUE, val |-> v] : v \in JsonValues } \cup { Malformed }
ErrorBodies == { Malformed, [wf |-> TRUE, val |-> JsonDictWithout] }

\* What can come back for one POST.
TransportErrors == { "ConnectionError", "Timeout" }
Outcomes ==
    { [kind |-> "transport", status |-> 0, exc |-> e, body |-> Malformed]
        : e \in TransportErrors }
    \cup { [kind |-> "http", status |-> s, exc |-> "none", body |-> b]
        : s \in {200, 300}, b \in Bodies }
    \cup { [kind |-> "http", status |-> s, exc |-> "none", body |-> b]
        : s \in {404, 500}, b \in ErrorBodies }

NoWire == [kind |-> "none", status |-> 0, exc |-> "none", body |-> Malformed]

NoRet == [kind |-> "none", items |-> <<>>, val |-> PyNone, exc |-> "none",
          status |-> "none"]
RetList(L) == [NoRet EXCEPT !.kind = "list", !.items = L]
RetValue(v) == [NoRet EXCEPT !.kind = "value", !.val = v]
RetRaised(e) == [NoRet EXCEPT !.kind = "raised", !.exc = e]

NoRun == [valid |-> FALSE, queries |-> <<>>, responses |-> <<>>, result |-> <<>>]

----------------------------------------------------------------------------
(* call_vector_search: payload and serialisation *)

Url == <<"h", "t", "t", "p", "s", ":", "/", "/", "w", "w", "w", ".", "a", "c", "0",
         ".", "c", "l", "o", "u", "d", "a", "d", "v", "o", "c", "a", "c", "y", "o",
         "r", "g", ".", "j", "o", "o", "n", "i", "x", ".", "n", "e", "t", "/", "a",
         "p", "i", "/", "q", "u", "e", "r", "y">>

RowLimit == 3

\* rows is None (the default of the parameter), written <<>>, or an int n,
\* written <<n>>.
RowsNone == <<>>
RowsArgs == { RowsNone, <<0>>, <<RowLimit>>, <<10>> }

DatasetId == <<"m", "e", "r", "c", "a", "r", "i", "3", "m", "_", "m", "m">>

Headers == [ContentType |-> "application/json"]


\* Variant: the query is stripped of leading spaces before it is sent.
RECURSIVE LStrip(_)
LStrip(q) == IF q # <<>> /\ Head(q) = " " THEN LStrip(Tail(q)) ELSE q

PayloadStripped(query, rows) ==
    [query |-> LStrip(query),
     rows |-> rows,
     dataset_id |-> DatasetId,
     use_dense |-> TRUE,
     use_sparse |-> TRUE,
     rrf_alpha |-> <<1, 2>>,
     use_rerank |-> TRUE]

\* The payload dict, with Python values: strings as character sequences,
\* booleans, the float 0.5 as the pair <<numerator, denominator>>.
Payload(query, rows) ==
    [query |-> query,
     rows |-> rows,
     dataset_id |-> DatasetId,
     use_dense |-> TRUE,
     use_sparse |-> TRUE,
     rrf_alpha |-> <<1, 2>>,
     use_rerank |-> TRUE]

RECURSIVE Concat(_)
Concat(ss) == IF ss = <<>> THEN <<>> ELSE Head(ss) \o Concat(Tail(ss))

\* json.dumps of one character of a str: quote and backslash are escaped.
JsonEscapeChar(c) ==
    IF c = "\"" THEN <<"\\", "\"">>
    ELSE IF c = "\\" THEN <<"\\", "\\">>
    ELSE <<c>>

JsonDumpsStr(s) ==
    <<"\"">> \o Concat([i \in 1..Len(s) |-> JsonEscapeChar(s[i])]) \o <<"\"">>

Digit(d) == CASE d = 0 -> "0" [] d = 1 -> "1" [] d = 2 -> "2" [] d = 3 -> "3"
              [] d = 4 -> "4" [] d = 5 -> "5" [] d = 6 -> "6" [] d = 7 -> "7"
              [] d = 8 -> "8" [] d = 9 -> "9"

RECURSIVE JsonDumpsNat(_)
JsonDumpsNat(n) ==
    IF n < 10 THEN <<Digit(n)>> ELSE Append(JsonDumpsNat(n \div 10), Digit(n % 10))

\* json.dumps of an int or None.
JsonDumpsRows(rows) ==
    IF rows = RowsNone THEN <<"n", "u", "l", "l">> ELSE JsonDumpsNat(rows[1])

JsonDumpsBool(b) ==
    IF b THEN <<"t", "r", "u", "e">> ELSE <<"f", "a", "l", "s", "e">>

\* json.dumps of the float num/den for the one value used, 1/2 -> 0.5.
JsonDumpsFloat(f) ==
    IF f = <<1, 2>> THEN <<"0", ".", "5">> ELSE <<"?">>

\* json.dumps(payload): the JSON text of each member, keys in insertion order.
JsonDumps(p) ==
    [query |-> JsonDumpsStr(p.query),
     rows |-> JsonDumpsRows(p.rows),
     dataset_id |-> JsonDumpsStr(p.dataset_id),
     use_dense |-> JsonDumpsBool(p.use_dense),
     use_sparse |-> JsonDumpsBool(p.use_sparse),
     rrf_alpha |-> JsonDumpsFloat(p.rrf_alpha),
     use_rerank |-> JsonDumpsBool(p.use_rerank)]

----------------------------------------------------------------------------
(* call_vector_search: response handling *)

\* requests.post raises on a transport failure, otherwise yields the response.
PostRaises(o) == IF o.kind = "transport" THEN o.exc ELSE "none"

\* response.raise_for_status(): HTTPError for 4xx and 5xx.
RaiseForStatus(status) ==
    IF status >= 400 /\ status < 600 THEN "HTTPError" ELSE "none"


\* Variant: the parser's own ValueError is raised, not the requests subclass.
ResponseJsonValueError(body) ==
    IF ~body.wf THEN [exc |-> "ValueError", val |-> PyNone]
    ELSE IF body.val.kind = "null" THEN [exc |-> "none", val |-> PyNone]
    ELSE [exc |-> "none", val |-> body.val]

\* response.json(): the parsed value (JSON null is None), or JSONDecodeError of
\* requests.exceptions.
ResponseJson(body) ==
    IF ~body.wf THEN [exc |-> "JSONDecodeError", val |-> PyNone]
    ELSE IF body.val.kind = "null" THEN [exc |-> "none", val |-> PyNone]
    ELSE [exc |-> "none", val |-> body.val]


\* Variant: the handler catches HTTPError only.
IsHTTPErrorOnly(e) == e = "HTTPError"

\* except requests.exceptions.RequestException: the classes it catches.
IsRequestException(e) ==
    e \in {"HTTPError", "ConnectionError", "Timeout", "JSONDecodeError"}

\* The try block: first exception raised, or the value returned.
TryBlock(o) ==
    IF PostRaises(o) # "none" THEN [exc |-> PostRaises(o), val |-> PyNone]
    ELSE IF RaiseForStatus(o.status) # "none"
         THEN [exc |-> RaiseForStatus(o.status), val |-> PyNone]
    ELSE ResponseJson(o.body)

ErrorLine == [line |-> "Error calling the API", n |-> 0]

----------------------------------------------------------------------------
(* find_shopping_items: helpers *)


\* Variant: the accumulator of the previous run is reused.
ItemsKept(stale) == stale

\* items = []
ItemsInit(stale) == <<>>


\* Variant: the loop re-reads the first query on every iteration.
NextQueryFirst(qs, i) == qs[1]

\* for query in queries: the query of iteration i.
NextQuery(qs, i) == qs[i]


\* Variant: a missing response is skipped instead of indexed.
SubscriptGuarded(r) ==
    IF r.kind = "None" THEN [exc |-> "none", items |-> <<>>]
    ELSE IF r.kind # "dict" THEN [exc |-> "TypeError", items |-> <<>>]
    ELSE IF ~r.has THEN [exc |-> "KeyError", items |-> <<>>]
    ELSE [exc |-> "none", items |-> r.items]

\* result["items"]: TypeError on None and on a non-dict, KeyError on a dict
\* without the key.
Subscript(r) ==
    IF r.kind = "None" THEN [exc |-> "TypeError", items |-> <<>>]
    ELSE IF r.kind # "dict" THEN [exc |-> "TypeError", items |-> <<>>]
    ELSE IF ~r.has THEN [exc |-> "KeyError", items |-> <<>>]
    ELSE [exc |-> "none", items |-> r.items]


\* Variant: each response is put in front of the accumulator.
ListExtendFront(acc, xs) == xs \o acc

\* items.extend(xs)
ListExtend(acc, xs) == acc \o xs

\* The four print calls after the loop.
Summary(qs, its) ==
    << [line |-> "-----", n |-> 0],
       [line |-> "User queries", n |-> Len(qs)],
       [line |-> "Found", n |-> Len(its)],
       [line |-> "-----", n |-> 0] >>

\* return items
ReturnValue(its) == RetList(its)


\* Variant: the next request may be issued while one is outstanding.
CanPostOverlapping(p) == p \in {"cvs_send", "cvs_wait"}

\* The call is synchronous: a request is issued only from the statement that
\* calls requests.post, never while the thread waits for an answer.
CanPost(p) == p = "cvs_send"


\* Variant: a failed call is sent again.
CvsRetryOnFailure(t, failed) ==
    IF failed THEN "cvs_send"
    ELSE IF t = "find_shopping_items" THEN "extend" ELSE "idle"

\* Where control goes when call_vector_search returns: back to its caller.
CvsReturnTo(t, failed) == IF t = "find_shopping_items" THEN "extend" ELSE "idle"

----------------------------------------------------------------------------
(* test_agent: events and helpers *)

MaxEvents == 3

\* final_response_text = None
NoText == "None"

\* Texts of the parts of an event.
Texts == {"a", "b"}

\* event.content: None (has |-> FALSE), or a Content whose parts are the
\* texts listed (no parts: <<>>).
Contents ==
    { [has |-> FALSE, parts |-> <<>>] }
    \cup { [has |-> TRUE, parts |-> ps] : ps \in {<<>>, <<"b", "a">>} }

\* An event as the loop reads it: is_final_response() and content.
Events == { [final |-> f, content |-> c] : f \in BOOLEAN, c \in Contents }

EventStreams == SeqsUpTo(Events, MaxEvents)

\* event.is_final_response()
IsFinalResponse(e) == e.final

\* Variant: the text of the last part is taken.
ResponseTextLastPart(e, old) ==
    IF e.content.has /\ e.content.parts # <<>>
    THEN e.content.parts[Len(e.content.parts)]
    ELSE old

\* if event.content and event.content.parts:
\*     final_response_text = event.content.parts[0].text
ResponseText(e, old) ==
    IF e.content.has /\ e.content.parts # <<>>
    THEN e.content.parts[1]
    ELSE old

UserQueryLine == [line |-> ">>> User Query", text |-> NoText]
AgentResponseLine(t) == [line |-> "<<< Agent Response", text |-> t]

----------------------------------------------------------------------------
(* State machine *)

Init ==
    /\ pc = "idle"
    /\ top = "none"
    /\ queries = <<>>
    /\ idx = 1
    /\ items = <<>>
    /\ result = PyNone
    /\ cvsArgs = [url |-> Url, query |-> <<>>, rows |-> RowsNone]
    /\ calls = 0
    /\ inflight = <<>>
    /\ posts = <<>>
    /\ wire = NoWire
    /\ responses = <<>>
    /\ allOk = TRUE
    /\ stdout = <<>>
    /\ ret = NoRet
    /\ prev = NoRun
    /\ taPc = "idle"
    /\ taStream = <<>>
    /\ taPos = 0
    /\ taText = NoText
    /\ taOut = <<>>

\* The run that has just completed with a returned list, as a record.
ThisRun == [valid |-> TRUE, queries |-> queries, responses |-> responses,
            result |-> ret.items]

\* History only: at the start of a call, remember the completed run or keep
\* the one remembered before.
Remember ==
    prev' \in {prev} \cup
              (IF top = "find_shopping_items" /\ ret.kind = "list"
               THEN {ThisRun} ELSE {})

\* The caller invokes find_shopping_items(qs); control reaches the for loop.
CallFind ==
    \E qs \in QueryLists :
        /\ pc = "idle"
        /\ Remember
        /\ top' = "find_shopping_items"
        /\ queries' = qs
        /\ items' = ItemsInit(items)
        /\ idx' = 1
        /\ calls' = 0
        /\ posts' = <<>>
        /\ wire' = NoWire
        /\ responses' = <<>>
        /\ allOk' = TRUE
        /\ stdout' = <<>>
        /\ ret' = NoRet
        /\ pc' = "for"
        /\ result' = PyNone
        /\ cvsArgs' = [url |-> Url, query |-> <<>>, rows |-> RowsNone]
        /\ UNCHANGED inflight
        /\ UNCHANGED taVars

\* One iteration of the loop begins: call_vector_search(url, query, rows=3).
ForNext ==
    /\ pc = "for"
    /\ idx <= Len(queries)
    /\ cvsArgs' = [url |-> Url, query |-> NextQuery(queries, idx),
                   rows |-> <<RowLimit>>]
    /\ calls' = calls + 1
    /\ pc' = "cvs_send"
    /\ UNCHANGED <<top, queries, idx, items, result, inflight, posts, wire,
                   responses, allOk, stdout, ret, prev>>
    /\ UNCHANGED taVars

\* The loop is exhausted: print the summary and return the accumulator.
ForDone ==
    /\ pc = "for"
    /\ idx > Len(queries)
    /\ stdout' = stdout \o Summary(queries, items)
    /\ ret' = ReturnValue(items)
    /\ pc' = "idle"
    /\ UNCHANGED <<top, queries, idx, items, result, cvsArgs, calls, inflight,
                   posts, wire, responses, allOk, prev>>
    /\ UNCHANGED taVars

\* The caller invokes call_vector_search(url, query, rows) directly.
CallCvs ==
    \E q \in Queries, r \in RowsArgs :
        /\ pc = "idle"
        /\ Remember
        /\ top' = "call_vector_search"
        /\ cvsArgs' = [url |-> Url, query |-> q, rows |-> r]
        /\ calls' = 1
        /\ posts' = <<>>
        /\ wire' = NoWire
        /\ stdout' = <<>>
        /\ ret' = NoRet
        /\ pc' = "cvs_send"
        /\ queries' = <<>>
        /\ idx' = 1
        /\ items' = <<>>
        /\ result' = PyNone
        /\ responses' = <<>>
        /\ allOk' = TRUE
        /\ UNCHANGED inflight
        /\ UNCHANGED taVars

\* call_vector_search builds headers and payload and sends the POST.
CvsPost ==
    /\ CanPost(pc)
    /\ LET body == JsonDumps(Payload(cvsArgs.query, cvsArgs.rows))
       IN  /\ inflight' = Append(inflight,
                 [url |-> cvsArgs.url, headers |-> Headers, data |-> body])
           /\ posts' = Append(posts,
                 [call |-> calls, args |-> cvsArgs, headers |-> Headers,
                  data |-> body])
    /\ pc' = "cvs_wait"
    /\ UNCHANGED <<top, queries, idx, items, result, cvsArgs, calls, wire,
                   responses, allOk, stdout, ret, prev>>
    /\ UNCHANGED taVars

CarriesItems(o) == o.kind = "http" /\ o.body.wf /\ o.body.val.kind = "dict"
                      /\ o.body.val.has

Is2xx(status) == status >= 200 /\ status < 300

\* The answer arrives; the rest of the try/except runs and the function
\* returns (or an exception it does not catch leaves it and its callers).
CvsReturn ==
    \E o \in Outcomes :
        /\ pc = "cvs_wait"
        /\ inflight # <<>>
        /\ inflight' = Tail(inflight)
        /\ wire' = o
        /\ responses' = IF top = "find_shopping_items" /\ CarriesItems(o)
                        THEN Append(responses, o.body.val.items) ELSE responses
        /\ allOk' = IF top = "find_shopping_items"
                    THEN allOk /\ CarriesItems(o) /\ Is2xx(o.status) ELSE allOk
        /\ LET t == TryBlock(o)
           IN  IF t.exc = "none"
               THEN /\ result' = t.val
                    /\ stdout' = stdout
                    /\ pc' = CvsReturnTo(top, FALSE)
                    /\ ret' = IF top = "call_vector_search"
                              THEN RetValue(t.val) ELSE ret
               ELSE IF IsRequestException(t.exc)
               THEN /\ result' = PyNone
                    /\ stdout' = Append(stdout, ErrorLine)
                    /\ pc' = CvsReturnTo(top, TRUE)
                    /\ ret' = IF top = "call_vector_search"
                              THEN RetValue(PyNone) ELSE ret
               ELSE /\ result' = result
                    /\ stdout' = stdout
                    /\ pc' = "idle"
                    /\ ret' = RetRaised(t.exc)
        /\ UNCHANGED <<top, queries, idx, items, cvsArgs, calls, posts, prev>>
        /\ UNCHANGED taVars

\* items.extend(result["items"]) and the step to the next iteration.
Extend ==
    /\ pc = "extend"
    /\ LET s == Subscript(result)
       IN  IF s.exc = "none"
           THEN /\ items' = ListExtend(items, s.items)
                /\ idx' = idx + 1
                /\ pc' = "for"
                /\ ret' = ret
           ELSE /\ items' = items
                /\ idx' = idx
                /\ pc' = "idle"
                /\ ret' = RetRaised(s.exc)
    /\ wire' = NoWire
    /\ UNCHANGED <<top, queries, result, cvsArgs, calls, inflight, posts,
                   responses, allOk, stdout, prev>>
    /\ UNCHANGED taVars

Next ==
    \/ CallFind
    \/ ForNext
    \/ ForDone
    \/ CallCvs
    \/ CvsPost
    \/ CvsReturn
    \/ Extend

Spec == Init /\ [][Next]_vars

----------------------------------------------------------------------------
(* test_agent *)

\* await test_agent(query, agent): the query is printed, the Runner and the
\* message are built, final_response_text = None, and the loop is entered.
CallTestAgent ==
    \E es \in EventStreams :
        /\ taPc \in {"idle", "done"}
        /\ taStream' = es
        /\ taPos' = 0
        /\ taText' = NoText
        /\ taOut' = <<UserQueryLine>>
        /\ taPc' = "iter"
        /\ UNCHANGED toolVars

\* The async for takes the next event; a final response sets the text (when
\* it has content and parts), breaks out of the loop and the text is printed.
TaEvent ==
    /\ taPc = "iter"
    /\ taPos < Len(taStream)
    /\ taPos' = taPos + 1
    /\ LET event == taStream[taPos + 1]
       IN  IF IsFinalResponse(event)
           THEN /\ taText' = ResponseText(event, taText)
                /\ taOut' = Append(taOut,
                                 AgentResponseLine(ResponseText(event, taText)))
                /\ taPc' = "done"
           ELSE /\ taText' = taText
                /\ taOut' = taOut
                /\ taPc' = "iter"
    /\ UNCHANGED <<taStream, toolVars>>

\* The stream ends without a final response: the loop ends and the text,
\* still None, is printed.
TaExhausted ==
    /\ taPc = "iter"
    /\ taPos = Len(taStream)
    /\ taOut' = Append(taOut, AgentResponseLine(taText))
    /\ taPc' = "done"
    /\ UNCHANGED <<taStream, taPos, taText, toolVars>>

NextAgent ==
    \/ CallTestAgent
    \/ TaEvent
    \/ TaExhausted

SpecAgent == Init /\ [][NextAgent]_vars

----------------------------------------------------------------------------
(* Reading the state *)

\* A run of find_shopping_items has ended (returned or raised).
FindEnded == top = "find_shopping_items" /\ pc = "idle"

\* call_vector_search has just handed control back, with `wire` the answer
\* it received.
CvsAnswered == wire.kind # "none" /\ pc \in {"extend", "idle"}

\* The failure was reported and swallowed: message printed, None returned,
\* nothing raised.
ReportedNone ==
    /\ result = PyNone
    /\ stdout # <<>>
    /\ stdout[Len(stdout)] = ErrorLine
    /\ ret.kind # "raised"
    /\ (top = "call_vector_search" => ret = RetValue(PyNone))

\* A JSON parser's reading of a serialised string (what the endpoint decodes).
RECURSIVE JsonUnescape(_)
JsonUnescape(t) ==
    IF t = <<>> THEN <<>>
    ELSE IF Head(t) = "\\"
         THEN IF Len(t) >= 2
              THEN <<t[2]>> \o JsonUnescape(SubSeq(t, 3, Len(t)))
              ELSE <<"<invalid>">>
    ELSE IF Head(t) = "\"" THEN <<"<invalid>">>
    ELSE <<Head(t)>> \o JsonUnescape(Tail(t))

JsonLoadsStr(t) ==
    IF Len(t) >= 2 /\ t[1] = "\"" /\ t[Len(t)] = "\""
    THEN JsonUnescape(SubSeq(t, 2, Len(t) - 1))
    ELSE <<"<invalid>">>

DigitValue(c) == CHOOSE d \in 0..9 : Digit(d) = c

RECURSIVE JsonLoadsNat(_)
JsonLoadsNat(t) ==
    IF Len(t) = 1 THEN DigitValue(t[1])
    ELSE 10 * JsonLoadsNat(SubSeq(t, 1, Len(t) - 1)) + DigitValue(t[Len(t)])

JsonLoadsRows(t) ==
    IF t = <<"n", "u", "l", "l">> THEN <<>> ELSE <<JsonLoadsNat(t)>>

----------------------------------------------------------------------------
(* Claims *)

\* C1: in a run of find_shopping_items whose lookups all succeed, the i-th
\* call of call_vector_search carries the i-th query and rows=3, calls are made
\* in input order without skipping or repeating, and when the run has returned
\* there were exactly as many calls as queries.
C1_OneCallPerQueryInOrder ==
    (top = "find_shopping_items" /\ allOk) =>
        /\ Len(posts) <= Len(queries)
        /\ \A i \in 1..Len(posts) :
              /\ posts[i].args.query = queries[i]
              /\ posts[i].args.rows = <<3>>
              /\ posts[i].args.url = Url
        /\ (FindEnded => /\ Len(posts) = Len(queries)
                         /\ calls = Len(queries))

C1_Witness ==
    /\ FindEnded
    /\ allOk
    /\ ret.kind = "list"
    /\ Len(queries) = 2
    /\ queries[1] # queries[2]
    /\ Len(posts) = 2

\* C2: a run whose lookups all succeed with item lists L1..Ln returns exactly
\* L1 \o ... \o Ln (the empty list for no queries): nothing dropped, reordered,
\* duplicated or de-duplicated; the accumulator equals the concatenation of
\* the lists received so far at every loop head.
C2_FlatConcatenation ==
    /\ (FindEnded /\ allOk /\ Len(responses) = Len(queries))
          => ret = RetList(Concat(responses))
    /\ (top = "find_shopping_items" /\ pc = "for" /\ allOk)
          => items = Concat(responses)

C2_Witness ==
    /\ FindEnded
    /\ allOk
    /\ responses = << <<"i2", "i1">>, <<"i1">> >>
    /\ ret = RetList(<<"i2", "i1", "i1">>)

\* C3 as stated: after any non-2xx status or transport failure,
\* call_vector_search reports the failure and returns None, raising nothing.
C3_Original_Non2xxReturnsNone ==
    (CvsAnswered /\ (wire.kind = "transport" \/ ~Is2xx(wire.status)))
        => ReportedNone

\* C3 (amended): after a 4xx or 5xx status or a transport failure
\* (connection error, timeout), call_vector_search reports the failure and
\* returns None, and no exception escapes to its caller.
C3_ErrorStatusReturnsNone ==
    (CvsAnswered /\ (wire.kind = "transport"
                       \/ (wire.status >= 400 /\ wire.status < 600)))
        => ReportedNone

C3_Witness ==
    /\ CvsAnswered
    /\ wire.kind = "http"
    /\ wire.status = 500
    /\ ReportedNone

\* C4: after a 2xx status whose body is not well-formed JSON,
\* call_vector_search reports the failure and returns None, raising nothing.
C4_MalformedJsonReturnsNone ==
    (CvsAnswered /\ wire.kind = "http" /\ Is2xx(wire.status) /\ ~wire.body.wf)
        => ReportedNone

C4_Witness ==
    /\ CvsAnswered
    /\ wire.kind = "http"
    /\ wire.status = 200
    /\ ~wire.body.wf
    /\ ReportedNone

\* C5: every request sent carries a JSON payload whose query member decodes to
\* the query argument exactly, whose rows member decodes to the rows argument
\* (null for None), and whose other members are the fixed texts
\* "mercari3m_mm", true, true, 0.5, true.
C5_PayloadFields ==
    \A i \in 1..Len(posts) :
        LET d == posts[i].data
            a == posts[i].args
        IN  /\ JsonLoadsStr(d.query) = a.query
            /\ JsonLoadsRows(d.rows) = a.rows
            /\ d.dataset_id = <<"\"", "m", "e", "r", "c", "a", "r", "i", "3", "m",
                                "_", "m", "m", "\"">>
            /\ d.use_dense = <<"t", "r", "u", "e">>
            /\ d.use_sparse = <<"t", "r", "u", "e">>
            /\ d.rrf_alpha = <<"0", ".", "5">>
            /\ d.use_rerank = <<"t", "r", "u", "e">>

C5_Witness ==
    /\ Len(posts) = 1
    /\ posts[1].args.rows = RowsNone
    /\ posts[1].data.rows = <<"n", "u", "l", "l">>
    /\ posts[1].args.query = <<"\"", "\\">>
    /\ posts[1].data.query = <<"\"", "\\", "\"", "\\", "\\", "\"">>

\* C6: once a lookup inside find_shopping_items has handed back None or a
\* parsed value without an "items" key, the run ends at that indexing with an
\* unhandled TypeError/KeyError: no further lookup, no list returned, no
\* summary printed.
C6_UnguardedIndexing ==
    (/\ top = "find_shopping_items"
     /\ pc \in {"for", "idle"}
     /\ calls >= 1
     /\ (result.kind # "dict" \/ ~result.has))
        => /\ pc = "idle"
           /\ ret.kind = "raised"
           /\ ret.exc \in {"TypeError", "KeyError"}
           /\ ret.items = <<>>
           /\ calls = idx
           /\ \A j \in 1..Len(stdout) : stdout[j].line # "Found"

C6_Witness ==
    /\ FindEnded
    /\ result = JsonDictWithout
    /\ ret = RetRaised("KeyError")
    /\ items # <<>>

\* C7 as stated: a run that ends successfully hands back a dict with
\* "status" = "success" and "items" = the items found.
C7_ReturnsStatusDict ==
    (FindEnded /\ ret.kind # "raised")
        => /\ ret.kind = "dict"
           /\ ret.status = "success"
           /\ ret.items = items

\* C8: at most one request is in flight, and while the request of the k-th
\* query is in flight every earlier response has been received and its items
\* appended to the accumulator.
C8_OneInFlight ==
    /\ Len(inflight) <= 1
    /\ (inflight # <<>>) => pc = "cvs_wait"
    /\ (inflight # <<>> /\ top = "find_shopping_items")
          => /\ idx = calls
             /\ Len(responses) = calls - 1
             /\ items = Concat(responses)

C8_Witness ==
    /\ top = "find_shopping_items"
    /\ Len(inflight) = 1
    /\ calls = 2
    /\ items # <<>>

\* C9: every invocation of call_vector_search issues exactly one POST: the
\* k-th request sent belongs to the k-th invocation, also after a failure.
C9_OnePostPerCall ==
    /\ Len(posts) = (IF pc = "cvs_send" THEN calls - 1 ELSE calls)
    /\ \A i \in 1..Len(posts) : posts[i].call = i

C9_Witness ==
    /\ CvsAnswered
    /\ wire.kind = "transport"
    /\ result = PyNone
    /\ calls = 2
    /\ Len(posts) = 2

\* C10: a run of find_shopping_items that got the same queries and the same
\* responses as an earlier run returns the same list, whatever was called in
\* between; every run enters its loop with an empty accumulator.
C10_NoCarryOver ==
    /\ (/\ prev.valid
        /\ FindEnded
        /\ ret.kind = "list"
        /\ prev.queries = queries
        /\ prev.responses = responses)
          => ret.items = prev.result
    /\ (top = "find_shopping_items" /\ pc = "for" /\ idx = 1) => items = <<>>

C10_Witness ==
    /\ prev.valid
    /\ FindEnded
    /\ ret.kind = "list"
    /\ prev.queries = queries
    /\ prev.responses = responses
    /\ Len(ret.items) = 3
    /\ ret.items = prev.result

\* The run met a failed lookup: call_vector_search printed its error line.
LookupFailed ==
    /\ top = "find_shopping_items"
    /\ \E j \in 1..Len(stdout) : stdout[j] = ErrorLine

\* C11: once the lookup of the k-th query of a batch has failed, the run
\* issues no lookup after position k, never returns a list (the items of
\* queries 1..k-1 are lost with the TypeError that ends the run) and never
\* prints the summary.
C11_FailFastBatch ==
    LookupFailed =>
        /\ pc \in {"extend", "idle"}
        /\ calls = idx
        /\ Len(posts) = idx
        /\ posts[idx].args.query = queries[idx]
        /\ ret.kind # "list"
        /\ ret.items = <<>>
        /\ (pc = "idle" => ret = RetRaised("TypeError"))
        /\ \A j \in 1..Len(stdout) :
              stdout[j].line \notin {"Found", "User queries", "-----"}

C11_Witness ==
    /\ LookupFailed
    /\ pc = "idle"
    /\ Len(queries) = 2
    /\ idx = 1
    /\ Len(posts) = 1
    /\ ret = RetRaised("TypeError")

\* Position of the first final-response event of a stream, 0 when it has none.
FirstFinal(es) ==
    IF \E j \in 1..Len(es) : es[j].final
    THEN CHOOSE j \in 1..Len(es) :
            es[j].final /\ \A k \in 1..(j - 1) : ~es[k].final
    ELSE 0

\* The text test_agent reported: that of its "Agent Response" line.
Reported == taOut[Len(taOut)].text

\* C12: test_agent takes events up to and including the first final response
\* and none after it; it reports the text of that event's first part when the
\* event has content with at least one part, and None when it has no content
\* or no parts or when the stream ends without a final response.
C12_FirstFinalResponse ==
    /\ taPos <= Len(taStream)
    /\ \A j \in 1..(taPos - 1) : ~taStream[j].final
    /\ (taPc = "iter" => \A j \in 1..taPos : ~taStream[j].final)
    /\ taPc = "done" =>
          LET f == FirstFinal(taStream)
          IN  /\ Len(taOut) = 2
              /\ taOut[2].line = "<<< Agent Response"
              /\ IF f = 0
                 THEN /\ taPos = Len(taStream)
                      /\ Reported = "None"
                 ELSE /\ taPos = f
                      /\ Reported =
                            (IF taStream[f].content.has
                                  /\ Len(taStream[f].content.parts) >= 1
                             THEN taStream[f].content.parts[1]
                             ELSE "None")

C12_Witness ==
    /\ taPc = "done"
    /\ Len(taStream) = 3
    /\ ~taStream[1].final
    /\ taStream[2].final
    /\ taStream[2].content.parts = <<"b", "a">>
    /\ taStream[3].final
    /\ taPos = 2
    /\ Reported = "b"

====
